---- MODULE Spec2Model ----
(***************************************************************************)
(* Pocket CO2 detector firmware (src/User/main.c): the mode controller,    *)
(* the menu, the five run-modes and the FLASH configuration store,         *)
(* modelled as a state machine.  One action per loop iteration or          *)
(* straight-line segment of the C code; `pc` is the position of main().    *)
(* The I2C bus speed bookkeeping (I2CInit / I2CSetSpeed / bWasSuspended)   *)
(* and the pixel output of the OLED are not part of the model.             *)
(***************************************************************************)
EXTENDS Integers, Sequences, FiniteSets, TLC

VARIABLES
    flash,        \* the four words at FLASH_START
    state,        \* STATE state (global)
    oldstate,     \* RunMenu: STATE oldstate
    pc,           \* position of main()
    iSelItem,     \* RunMenu: selected menu item
    bDone,        \* RunMenu: bDone
    sensor,       \* SCD41: "idle", "normal" or "low" periodic measurement
    oledOn,       \* OLED panel power (oledPower / oledInit)
    iCO2,         \* _iCO2: the latest sample read from the sensor
    air,          \* the CO2 concentration the sensor is exposed to
    i,            \* loop counter of RunTimer / RunCalibrate / main
    iTicks,       \* RunTimer: display-on seconds left
    iUITick,      \* RunLowPower: display-on quarter seconds left
    iSampleTick,  \* RunLowPower: quarter seconds since the last sample
    iTick,        \* RunStealth: quarter-second counter
    iLevel,       \* RunStealth: pulses per update
    iUpdate,      \* RunStealth: quarter seconds per update
    iSample,      \* static iSample: samples captured in continuous mode
    calResult,    \* RunCalibrate: outcome of scd41_recalibrate
    held,         \* environment: both buttons are held down from now on
    heldAt,       \* environment: position of main() when they were pressed for good
    budget,       \* environment: menu field activations the user still makes
    sampleCap,    \* environment: value at which the model stops counting iSample
    wakes,        \* environment: wake interrupts (EXTI line 0) still to arrive
    \* ---- observation (history) variables, not program state ----
    session,      \* the run-mode of the current / last session, "none" before
    startCalls,   \* scd41_start calls since the session was dispatched
    stopCalls,    \* scd41_stop calls since the session was dispatched
    saves,        \* WriteFlash calls made by the current / last RunMenu
    entryState,   \* state as it was when RunMenu was last entered
    loads,        \* ReadFlash calls so far
    loaded,       \* value of state when the last ReadFlash returned
    prevLoaded,   \* value of state when the ReadFlash before that returned
    flash0,       \* FLASH contents when the last ReadFlash was called
    writes,       \* WriteFlash calls made by the last ReadFlash
    repairs,      \* WriteFlash calls made by all ReadFlash calls so far
    ticks,        \* ShowTime calls of the current countdown
    shown,        \* argument of the last ShowTime call
    alerts,       \* ShowAlert calls since the session was dispatched
    alertLog,     \* motor, LED and delay events of the last ShowAlert call
    pulses,       \* Vibrate(100) pulses emitted by the last RunStealth iteration
    sampled,      \* the last RunStealth iteration called scd41_getSample
    mood,         \* emoji index of the last ShowCurrent
    drawing,      \* main() is inside ShowCurrent, between its first and last transfer
    irqFills,     \* oledFill calls made in interrupt context
    irqMid,       \* those of them made while main() was inside ShowCurrent
    cue,          \* LEDs blinked after the last RunLowPower sample
    litTicks,     \* RunLowPower: suspend ticks since the display was last powered on
    litFor,       \* RunLowPower: value of litTicks at the last oledPower(0), 0 before
    seen,         \* RunLowPower: the last iteration read exactly one button pressed
    drawn,        \* the CO2 value the last ShowCurrent drew, -1 before
    recalCalls,   \* scd41_recalibrate calls since the session was dispatched
    recalRef,     \* argument of the last scd41_recalibrate call
    recalSeen,    \* state of the sensor when scd41_recalibrate was last called
    recalOut,     \* value the last scd41_recalibrate call returned
    sampleSeen,   \* state of the sensor when scd41_getSample was last called
    exitBy        \* how the last session ended

vars == << flash, state, oldstate, pc, iSelItem, bDone, sensor, oledOn, iCO2, air, i,
           iTicks, iUITick, iSampleTick, iTick, iLevel, iUpdate, iSample, calResult,
           held, heldAt, budget, sampleCap, wakes, irqFills, irqMid, session,
           startCalls, stopCalls, saves, entryState, loads, loaded, prevLoaded, flash0,
           writes, repairs, ticks, shown, alerts, alertLog, pulses, sampled, mood,
           drawing, cue, litTicks, litFor, seen, drawn, recalCalls, recalRef, recalSeen,
           recalOut, sampleSeen, exitBy >>

\* the variables of the configuration store
storeVars == << flash, state, loads, loaded, prevLoaded, flash0, writes, repairs >>
\* the locals of RunMenu and what is observed of it
menuVars == << oldstate, iSelItem, bDone, saves, entryState, budget >>
\* the locals of the run-modes
modeVars == << i, iTicks, iUITick, iSampleTick, iTick, iLevel, iUpdate, calResult >>
\* what is observed of a run-mode session
obsVars == << session, startCalls, stopCalls, ticks, shown, alerts, alertLog, pulses,
              sampled, mood, drawing, cue, litTicks, litFor, seen, drawn, recalCalls,
              recalRef, recalSeen, recalOut, sampleSeen, exitBy >>
\* the peripherals and the statics they feed
devVars == << sensor, oledOn, iCO2, iSample >>
\* the environment
envVars == << air, held, heldAt, sampleCap, wakes, irqFills, irqMid >>

----------------------------------------------------------------------------
\* Enumerations (main.c:52-79)

MODE_CONTINUOUS == 0
MODE_LOW_POWER == 1
MODE_STEALTH == 2
MODE_CALIBRATE == 3
MODE_TIMER == 4
MODE_COUNT == 5

ALERT_VIBRATION == 0
ALERT_LED == 1
ALERT_BOTH == 2
ALERT_COUNT == 3

MENU_START == 0
MENU_MODE == 1
MENU_FREQ == 2
MENU_ALERT == 3
MENU_TIME == 4
MENU_COUNT == 5

\* Bounds of the model
MaxEdits == 1        \* field activations per run of the whole program
MaxMenuEdits == 5   \* field activations in a menu-only run
MaxLoads == 2        \* ReadFlash calls in a configuration-store run
MaxSample == 1       \* iSample is counted up to this value
MaxStealthTick == 250 \* RunStealth iterations are followed up to this iTick

MkState(m, a, f, p) == [iMode |-> m, iAlert |-> a, iFreq |-> f, iPeriod |-> p]

\* C integer division (truncation toward zero), for a positive divisor
CDiv(a, b) == IF a >= 0 THEN a \div b ELSE -((-a) \div b)

\* GetButtons(): bit0 = button 0, bit1 = button 1.  Once `held`, both read pressed.
Buttons == IF held THEN {3} ELSE 0..3

----------------------------------------------------------------------------
\* Configuration store

\* WriteFlash(): the page at FLASH_START receives the words of `s`
WriteFlash(s) == s

\* Faulty variant: the upper limit of the period test off by one
RecordInvalidUpper(s) == s.iPeriod < 5 \/ s.iPeriod >= 60

\* The validity test of ReadFlash()
RecordInvalid(s) == s.iPeriod < 5 \/ s.iPeriod > 60

\* The default values ReadFlash() substitutes
DefaultState == MkState(MODE_CONTINUOUS, 0, 30, 5)

\* ReadFlash(): copy the record; if the period is out of range, set and write defaults
ReadFlash ==
    /\ pc = "boot"
    /\ loads' = loads + 1
    /\ flash0' = flash
    /\ prevLoaded' = loaded
    /\ IF RecordInvalid(flash)
          THEN /\ state' = DefaultState
               /\ flash' = WriteFlash(DefaultState)
               /\ writes' = 1
               /\ repairs' = repairs + 1
          ELSE /\ state' = flash
               /\ flash' = flash
               /\ writes' = 0
               /\ repairs' = repairs
    /\ loaded' = state'
    /\ pc' = "loaded"
    /\ UNCHANGED << menuVars, modeVars, obsVars, devVars, envVars >>

----------------------------------------------------------------------------
\* Boot (main.c:704-717)

\* Vibrate(ms): the motor runs for ms milliseconds
Vibrate(ms) == [dev |-> "motor", ms |-> ms]

\* BlinkLED(led, ms): the LED is lit for ms milliseconds
BlinkLED(led, ms) == [dev |-> led, ms |-> ms]

\* Delay_Ms(ms) with nothing driven
Delay_Ms(ms) == [dev |-> "none", ms |-> ms]

\* for (i=0; i<n; i++) { body }: the events of n runs of the body
RECURSIVE Loop(_, _)
Loop(n, body) == IF n <= 0 THEN << >> ELSE body \o Loop(n - 1, body)

\* Faulty variant: the LED alert blinks three times like the other two
AlertEventsThree(a) ==
    CASE a = ALERT_VIBRATION -> Loop(3, << Vibrate(150), Delay_Ms(820) >>)
      [] a = ALERT_LED -> Loop(3, << BlinkLED("green", 300), BlinkLED("red", 300) >>)
      [] a = ALERT_BOTH ->
             Loop(3, << Vibrate(150), BlinkLED("green", 400), BlinkLED("red", 400) >>)
      [] OTHER -> << >>

\* The switch of ShowAlert(): the events it produces for a value of state.iAlert;
\* a value that matches no case produces none
AlertEvents(a) ==
    CASE a = ALERT_VIBRATION -> Loop(3, << Vibrate(150), Delay_Ms(820) >>)
      [] a = ALERT_LED -> Loop(4, << BlinkLED("green", 300), BlinkLED("red", 300) >>)
      [] a = ALERT_BOTH ->
             Loop(3, << Vibrate(150), BlinkLED("green", 400), BlinkLED("red", 400) >>)
      [] OTHER -> << >>

\* ShowAlert() with state.iAlert = a: a blocking sequence of motor and LED pulses
\* that reads no button and writes no variable of the program
ShowAlert(a) ==
    /\ alerts' = alerts + 1
    /\ alertLog' = AlertEvents(a)

\* main(): after ReadFlash, the alert style is set to LEDs and the alert is played
BootAlert ==
    /\ pc = "loaded"
    /\ state' = [state EXCEPT !.iAlert = ALERT_LED]
    /\ ShowAlert(state'.iAlert)
    /\ pc' = "menu_top"
    /\ UNCHANGED << flash, loads, loaded, prevLoaded, flash0, writes, repairs, menuVars,
                    modeVars, session, startCalls, stopCalls, ticks, shown, pulses,
                    sampled, mood, drawing, cue, litTicks, litFor, seen, drawn,
                    recalCalls, recalRef, recalSeen, recalOut, sampleSeen, exitBy,
                    devVars, envVars >>

----------------------------------------------------------------------------
\* RunMenu (main.c:339-414)

\* case MENU_MODE
CycleMode(s) ==
    [s EXCEPT !.iMode = IF s.iMode + 1 >= MODE_COUNT THEN 0 ELSE s.iMode + 1]

\* Faulty variant: the update time wraps one step early
CycleFreqEarly(s) ==
    [s EXCEPT !.iFreq = IF s.iFreq + 15 >= 60 THEN 15 ELSE s.iFreq + 15]

\* case MENU_FREQ
CycleFreq(s) ==
    [s EXCEPT !.iFreq = IF s.iFreq + 15 > 60 THEN 15 ELSE s.iFreq + 15]

\* case MENU_ALERT
CycleAlert(s) ==
    [s EXCEPT !.iAlert = IF s.iAlert + 1 >= ALERT_COUNT THEN 0 ELSE s.iAlert + 1]

\* case MENU_TIME
CyclePeriod(s) ==
    [s EXCEPT !.iPeriod = IF s.iPeriod + 5 > 60 THEN 5 ELSE s.iPeriod + 5]

\* The switch on iSelItem for the items that edit a field
Activate(item, s) ==
    CASE item = MENU_MODE -> CycleMode(s)
      [] item = MENU_FREQ -> CycleFreq(s)
      [] item = MENU_ALERT -> CycleAlert(s)
      [] item = MENU_TIME -> CyclePeriod(s)
      [] OTHER -> s

\* Faulty variant: the settings are written in calibration mode too
MustSaveAnyMode(s, old) == s # old

\* The test that decides whether RunMenu writes the settings on leaving
MustSave(s, old) == s.iMode # MODE_CALIBRATE /\ s # old

\* Entry of RunMenu up to the first draw: oldstate = state, oledInit, oledFill(0).
\* What was observed of the session before is forgotten here.
MenuEnter ==
    /\ pc = "menu_top"
    /\ oldstate' = state
    /\ entryState' = state
    /\ iSelItem' = 0
    /\ bDone' = 0
    /\ saves' = 0
    /\ oledOn' = TRUE
    /\ pc' = "menu_release"
    /\ ticks' = 0 /\ shown' = 0 /\ pulses' = 0 /\ sampled' = FALSE
    /\ mood' = 0 /\ drawn' = -1 /\ cue' = "none"
    /\ litTicks' = 0 /\ litFor' = 0 /\ seen' = FALSE
    /\ recalRef' = 0 /\ recalSeen' = "none" /\ recalOut' = "none"
    /\ sampleSeen' = "none"
    /\ UNCHANGED << storeVars, modeVars, budget, sensor, iCO2, iSample, envVars,
                    session, startCalls, stopCalls, alerts, alertLog, drawing,
                    recalCalls, exitBy >>

\* while (GetButtons() != 0) Delay_Ms(20);
MenuWaitRelease ==
    /\ pc = "menu_release"
    /\ \E b \in Buttons : pc' = IF b # 0 THEN "menu_release" ELSE "menu_press"
    /\ UNCHANGED << storeVars, menuVars, modeVars, obsVars, devVars, envVars >>

\* while (GetButtons() == 0) Delay_Ms(20);
MenuWaitPress ==
    /\ pc = "menu_press"
    /\ \E b \in Buttons : pc' = IF b = 0 THEN "menu_press" ELSE "menu_read"
    /\ UNCHANGED << storeVars, menuVars, modeVars, obsVars, devVars, envVars >>

\* y = GetButtons(); button 0 moves the cursor, button 1 acts on the selected item
MenuRead ==
    /\ pc = "menu_read"
    /\ \E y \in Buttons :
         IF y \in {1, 3}
            THEN /\ iSelItem' = IF iSelItem + 1 = MENU_COUNT THEN 0 ELSE iSelItem + 1
                 /\ UNCHANGED << state, bDone, budget >>
                 /\ pc' = "menu_release"
            ELSE IF y = 2     \* a field item is activated while the budget lasts
               THEN IF iSelItem = MENU_START
                       THEN /\ bDone' = 1
                            /\ pc' = "menu_exit"
                            /\ UNCHANGED << state, iSelItem, budget >>
                       ELSE /\ budget > 0
                            /\ budget' = budget - 1
                            /\ state' = Activate(iSelItem, state)
                            /\ pc' = "menu_release"
                            /\ UNCHANGED << iSelItem, bDone >>
               ELSE /\ pc' = "menu_release"
                    /\ UNCHANGED << state, iSelItem, bDone, budget >>
    /\ UNCHANGED << flash, loads, loaded, prevLoaded, flash0, writes, repairs, oldstate,
                    saves, entryState, modeVars, obsVars, devVars, envVars >>

\* After the loop: write the settings if they changed and the mode is not Calibrate
MenuExit ==
    /\ pc = "menu_exit"
    /\ IF MustSave(state, oldstate)
          THEN flash' = WriteFlash(state) /\ saves' = saves + 1
          ELSE UNCHANGED << flash, saves >>
    /\ pc' = "dispatch"
    /\ UNCHANGED << state, loads, loaded, prevLoaded, flash0, writes, repairs, oldstate,
                    iSelItem, bDone, entryState, budget, modeVars, obsVars, devVars,
                    envVars >>

----------------------------------------------------------------------------
\* main(): the dispatch after RunMenu (main.c:718-739)

\* Faulty variant: the tests for low power and stealth mode exchanged
RunModeOfSwapped(m) ==
    IF m = MODE_TIMER THEN "RunTimer"
    ELSE IF m = MODE_CALIBRATE THEN "RunCalibrate"
    ELSE IF m = MODE_STEALTH THEN "RunLowPower"
    ELSE IF m = MODE_LOW_POWER THEN "RunStealth"
    ELSE "continuous"

\* The branch main() takes for a mode value
RunModeOf(m) ==
    IF m = MODE_TIMER THEN "RunTimer"
    ELSE IF m = MODE_CALIBRATE THEN "RunCalibrate"
    ELSE IF m = MODE_LOW_POWER THEN "RunLowPower"
    ELSE IF m = MODE_STEALTH THEN "RunStealth"
    ELSE "continuous"

\* The locals of a run-mode function are gone when it returns
LocalsGone ==
    /\ i' = 0 /\ iTicks' = 0 /\ iUITick' = 0 /\ iSampleTick' = 0
    /\ iTick' = 0 /\ iLevel' = 0 /\ iUpdate' = 0 /\ calResult' = "none"

\* goto menu_top, from a run-mode
ReturnToMenu(how) ==
    /\ pc' = "menu_top"
    /\ exitBy' = how
    /\ LocalsGone

\* RunMenu has returned: main() branches on state.iMode.  A session begins.
Dispatch ==
    /\ pc = "dispatch"
    /\ pc' = RunModeOf(state.iMode)
    /\ session' = RunModeOf(state.iMode)
    /\ startCalls' = 0 /\ stopCalls' = 0 /\ alerts' = 0 /\ recalCalls' = 0
    /\ alertLog' = << >>
    /\ exitBy' = "running"
    /\ oldstate' = state /\ entryState' = state /\ iSelItem' = 0 /\ bDone' = 0
    /\ saves' = 0
    /\ UNCHANGED << storeVars, budget, modeVars, devVars, envVars, ticks, shown, pulses,
                    sampled, mood, drawing, cue, litTicks, litFor, seen, drawn,
                    recalRef, recalSeen, recalOut, sampleSeen >>

----------------------------------------------------------------------------
\* RunTimer (main.c:304-337)

\* RunTimer: the display bookkeeping of one countdown second with buttons j at
\* count n: << iTicks, display power >> after the three tests of the loop body
TimerDisplay(n, j, t, on) ==
    LET press == j # 0 /\ t = 0
        t1 == IF press THEN 5 ELSE t
        on1 == IF press THEN TRUE ELSE on
        on2 == IF n = 10 /\ t1 = 0 THEN TRUE ELSE on1
        t2 == IF n = 10 THEN 11 ELSE t1
        t3 == IF t2 # 0 THEN t2 - 1 ELSE t2
        on3 == IF t2 # 0 /\ t3 = 0 THEN FALSE ELSE on2
    IN  << t3, on3 >>

\* Faulty variant: the countdown starts one second short
TimerStartShort(s) == s.iPeriod * 60 - 1

\* The first value of the countdown: state.iPeriod * 60 seconds
TimerStart(s) == s.iPeriod * 60

\* Entry of RunTimer: i = state.iPeriod*60, iTicks = 5
TimerEnter ==
    /\ pc = "RunTimer"
    /\ i' = TimerStart(state)
    /\ iTicks' = 5
    /\ pc' = "timer"
    /\ UNCHANGED << storeVars, menuVars, obsVars, devVars, envVars, iUITick,
                    iSampleTick, iTick, iLevel, iUpdate, calResult >>

\* One iteration of the countdown loop: ShowTime(i), poll, display timer, blink, 1 s
TimerTick ==
    /\ pc = "timer"
    /\ ticks' = ticks + 1
    /\ shown' = i
    /\ \E j \in Buttons :
         IF j = 3
            THEN /\ ReturnToMenu("gesture")
                 /\ UNCHANGED oledOn
            ELSE /\ iTicks' = TimerDisplay(i, j, iTicks, oledOn)[1]
                 /\ oledOn' = TimerDisplay(i, j, iTicks, oledOn)[2]
                 /\ i' = i - 1
                 /\ pc' = IF i - 1 >= 0 THEN "timer" ELSE "timer_alert"
                 /\ UNCHANGED << exitBy, iUITick, iSampleTick, iTick, iLevel, iUpdate,
                                 calResult >>
    /\ UNCHANGED << storeVars, menuVars, envVars, sensor, iCO2, iSample, session,
                    startCalls, stopCalls, alerts, alertLog, pulses, sampled, mood,
                    drawing, cue, litTicks, litFor, seen, drawn, recalCalls, recalRef,
                    recalSeen, recalOut, sampleSeen >>

\* The countdown ran out: ShowAlert(), return
TimerAlert ==
    /\ pc = "timer_alert"
    /\ ShowAlert(state.iAlert)
    /\ ReturnToMenu("done")
    /\ UNCHANGED << storeVars, menuVars, envVars, devVars, session, startCalls,
                    stopCalls, ticks, shown, pulses, sampled, mood, drawing, cue,
                    litTicks, litFor, seen, drawn, recalCalls, recalRef, recalSeen,
                    recalOut, sampleSeen >>

----------------------------------------------------------------------------
\* ShowCurrent (main.c:269-302)

\* Faulty variant: the emoji index without the offset of 500
MoodIndexNoOffset(co2) ==
    LET x == CDiv(co2, 500)
    IN  IF x < 0 THEN 0 ELSE IF x > 4 THEN 4 ELSE x

\* The emoji index: x = (_iCO2 - 500)/500, limited to 0..4
MoodIndex(co2) ==
    LET x == CDiv(co2 - 500, 500)
    IN  IF x < 0 THEN 0 ELSE IF x > 4 THEN 4 ELSE x

----------------------------------------------------------------------------
\* RunLowPower (main.c:490-553)

\* The LEDs blinked for a sample
LedCue(co2) ==
    IF co2 < 1000 THEN "green"
    ELSE IF co2 > 1000 /\ co2 < 2000 THEN "green+red"
    ELSE "red"

\* Faulty variant: any press restarts the display timer
LowPowerShowAlways(b, ui) == b # 0

\* else if (i && iUITick == 0): a press is acted on only when the display timer
\* has run out
LowPowerShow(b, ui) == b # 0 /\ ui = 0

\* Entry of RunLowPower: iUITick = 20, iSampleTick = 0, scd41_start(LOW)
LowPowerEnter ==
    /\ pc = "RunLowPower"
    /\ iUITick' = 20
    /\ iSampleTick' = 0
    /\ sensor' = "low"
    /\ startCalls' = startCalls + 1
    /\ litTicks' = 0 /\ litFor' = 0 /\ seen' = FALSE
    /\ pc' = "lowpower"
    /\ UNCHANGED << storeVars, menuVars, envVars, oledOn, iCO2, iSample, i, iTicks,
                    iTick, iLevel, iUpdate, calResult, session, stopCalls, ticks, shown,
                    alerts, alertLog, pulses, sampled, mood, drawing, cue, drawn,
                    recalCalls, recalRef, recalSeen, recalOut, sampleSeen, exitBy >>

\* One iteration of the loop of RunLowPower: poll; on a press with the display timer
\* run out, oledPower(1), ShowCurrent(), iUITick = 20; Standby82ms(3); every 120th
\* iteration a sample and its LED cue; the display timer, and oledPower(0) when it
\* runs out.  ShowCurrent() is taken whole here.
LowPowerTick ==
    /\ pc = "lowpower"
    /\ \E b \in Buttons :
         /\ seen' = (b \in {1, 2})
         /\ IF b = 3
            THEN /\ sensor' = "idle"
                 /\ stopCalls' = stopCalls + 1
                 /\ ReturnToMenu("gesture")
                 /\ UNCHANGED << oledOn, iCO2, mood, cue, litTicks, litFor, drawn,
                                 sampleSeen >>
            ELSE LET show == LowPowerShow(b, iUITick)
                     ui1 == IF show THEN 20 ELSE iUITick
                     on1 == IF show THEN TRUE ELSE oledOn
                     take == iSampleTick + 1 = 120
                     ui2 == IF ui1 > 0 THEN ui1 - 1 ELSE ui1
                     off == ui1 > 0 /\ ui2 = 0
                     lit == IF show THEN 1 ELSE IF on1 THEN litTicks + 1 ELSE litTicks
                 IN  /\ mood' = IF show THEN MoodIndex(iCO2) ELSE mood
                     /\ drawn' = IF show THEN iCO2 ELSE drawn
                     /\ iCO2' = IF take THEN air ELSE iCO2
                     /\ sampleSeen' = IF take THEN sensor ELSE sampleSeen
                     /\ cue' = IF take THEN LedCue(air) ELSE cue
                     /\ iSampleTick' = IF take THEN 0 ELSE iSampleTick + 1
                     /\ iUITick' = ui2
                     /\ oledOn' = IF off THEN FALSE ELSE on1
                     /\ litTicks' = lit
                     /\ litFor' = IF off THEN lit ELSE litFor
                     /\ UNCHANGED << pc, sensor, stopCalls, exitBy, i, iTicks, iTick,
                                     iLevel, iUpdate, calResult >>
    /\ UNCHANGED << storeVars, menuVars, envVars, iSample, session, startCalls, ticks,
                    shown, alerts, alertLog, pulses, sampled, drawing, recalCalls,
                    recalRef, recalSeen, recalOut >>

----------------------------------------------------------------------------
\* RunStealth (main.c:555-601)

\* Faulty variant: the pulse count without the upper limit
StealthLevelUnlimited(co2) ==
    LET l == 1 + CDiv(co2, 500)
    IN  IF l < 1 THEN 1 ELSE l

\* iLevel = 1 + (_iCO2/500), limited to 1..6
StealthLevel(co2) ==
    LET l == 1 + CDiv(co2, 500)
    IN  IF l < 1 THEN 1 ELSE IF l > 6 THEN 6 ELSE l

\* Entry of RunStealth: iTick = 0, iLevel = 1, iUpdate = state.iFreq * 4, the prompt
StealthEnter ==
    /\ pc = "RunStealth"
    /\ iTick' = 0
    /\ iLevel' = 1
    /\ iUpdate' = state.iFreq * 4
    /\ pc' = "stealth_release"
    /\ UNCHANGED << storeVars, menuVars, envVars, devVars, obsVars, i, iTicks, iUITick,
                    iSampleTick, calResult >>

\* while (GetButtons() != 0) Delay_Ms(20);
StealthWaitRelease ==
    /\ pc = "stealth_release"
    /\ \E b \in Buttons : pc' = IF b # 0 THEN "stealth_release" ELSE "stealth_press"
    /\ UNCHANGED << storeVars, menuVars, modeVars, obsVars, devVars, envVars >>

\* while (j = GetButtons() == 0) Delay_Ms(20); then oledPower(0), scd41_start(NORMAL)
StealthWaitPress ==
    /\ pc = "stealth_press"
    /\ \E b \in Buttons :
         IF b = 0
            THEN UNCHANGED << pc, oledOn, sensor, startCalls >>
            ELSE /\ oledOn' = FALSE
                 /\ sensor' = "normal"
                 /\ startCalls' = startCalls + 1
                 /\ pc' = "stealth"
    /\ UNCHANGED << storeVars, menuVars, modeVars, envVars, iCO2, iSample, session,
                    stopCalls, ticks, shown, alerts, alertLog, pulses, sampled, mood,
                    drawing, cue, litTicks, litFor, seen, drawn, recalCalls, recalRef,
                    recalSeen, recalOut, sampleSeen, exitBy >>

\* Faulty variant: the exit path of RunStealth without scd41_stop()
StealthQuitNoStop ==
    /\ ReturnToMenu("gesture")
    /\ UNCHANGED << sensor, stopCalls, iCO2, pulses, sampled, sampleSeen >>

\* Faulty variant: the exit test of RunStealth has no effect
StealthQuitStays ==
    UNCHANGED << sensor, stopCalls, iCO2, pulses, sampled, sampleSeen, pc, exitBy,
                 modeVars >>

\* if (j == 3) { oledFill(0); scd41_stop(); return; }
StealthQuit ==
    /\ sensor' = "idle"
    /\ stopCalls' = stopCalls + 1
    /\ ReturnToMenu("gesture")
    /\ UNCHANGED << iCO2, pulses, sampled, sampleSeen >>

\* Faulty variant: four quarter seconds counted for every pulse
StealthAdvanceFour(t, n) ==
    t + 4 * n + 1

\* iTick += 2 for each of the n pulses played, then iTick++
StealthAdvance(t, n) ==
    t + 2 * n + 1

\* One iteration of the loop of RunStealth
StealthTick ==
    /\ pc = "stealth"
    /\ \E j \in Buttons :
         IF j = 3
            THEN StealthQuit
            ELSE LET take == iTick % 20 = 19
                     co2 == IF take THEN air ELSE iCO2
                     level == IF take THEN StealthLevel(co2) ELSE iLevel
                     buzz == iTick % iUpdate = iUpdate - 1
                 IN  /\ iTick <= MaxStealthTick
                     /\ sampled' = take
                     /\ iCO2' = co2
                     /\ sampleSeen' = IF take THEN sensor ELSE sampleSeen
                     /\ iLevel' = level
                     /\ pulses' = IF buzz THEN level ELSE 0
                     /\ iTick' = StealthAdvance(iTick, pulses')
                     /\ UNCHANGED << pc, sensor, stopCalls, exitBy, i, iTicks, iUITick,
                                     iSampleTick, iUpdate, calResult >>
    /\ UNCHANGED << storeVars, menuVars, envVars, oledOn, iSample, session, startCalls,
                    ticks, shown, alerts, alertLog, mood, drawing, cue, litTicks,
                    litFor, seen, drawn, recalCalls, recalRef, recalSeen, recalOut >>

----------------------------------------------------------------------------
\* RunCalibrate (main.c:653-702)

\* The first value of the calibration countdown
CalibrateSeconds == 210

\* The reference passed to scd41_recalibrate
CalibrateReference == 423

\* Entry of RunCalibrate: the instructions are shown
CalibrateEnter ==
    /\ pc = "RunCalibrate"
    /\ pc' = "calibrate_release"
    /\ UNCHANGED << storeVars, menuVars, modeVars, obsVars, devVars, envVars >>

\* while (GetButtons()) Delay_Ms(20);
CalibrateWaitRelease ==
    /\ pc = "calibrate_release"
    /\ \E b \in Buttons : pc' = IF b # 0 THEN "calibrate_release" ELSE "calibrate_press"
    /\ UNCHANGED << storeVars, menuVars, modeVars, obsVars, devVars, envVars >>

\* while ((j = GetButtons()) == 0) Delay_Ms(20); both buttons quit, one button starts
CalibrateWaitPress ==
    /\ pc = "calibrate_press"
    /\ \E j \in Buttons :
         IF j = 0
            THEN UNCHANGED << pc, sensor, startCalls, exitBy, modeVars >>
            ELSE IF j = 3
               THEN /\ ReturnToMenu("prompt")
                    /\ UNCHANGED << sensor, startCalls >>
               ELSE /\ sensor' = "normal"
                    /\ startCalls' = startCalls + 1
                    /\ i' = CalibrateSeconds
                    /\ pc' = "calibrate"
                    /\ UNCHANGED << exitBy, iTicks, iUITick, iSampleTick, iTick, iLevel,
                                    iUpdate, calResult >>
    /\ UNCHANGED << storeVars, menuVars, envVars, oledOn, iCO2, iSample, session,
                    stopCalls, ticks, shown, alerts, alertLog, pulses, sampled, mood,
                    drawing, cue, litTicks, litFor, seen, drawn, recalCalls, recalRef,
                    recalSeen, recalOut, sampleSeen >>

\* One iteration of the calibration countdown: ShowTime(i), poll, 1 s
CalibrateTick ==
    /\ pc = "calibrate"
    /\ ticks' = ticks + 1
    /\ shown' = i
    /\ \E j \in Buttons :
         IF j = 3
            THEN /\ sensor' = "idle"
                 /\ stopCalls' = stopCalls + 1
                 /\ ReturnToMenu("gesture")
            ELSE /\ i' = i - 1
                 /\ pc' = IF i - 1 >= 0 THEN "calibrate" ELSE "calibrate_finish"
                 /\ UNCHANGED << sensor, stopCalls, exitBy, iTicks, iUITick,
                                 iSampleTick, iTick, iLevel, iUpdate, calResult >>
    /\ UNCHANGED << storeVars, menuVars, envVars, oledOn, iCO2, iSample, session,
                    startCalls, alerts, alertLog, pulses, sampled, mood, drawing, cue,
                    litTicks, litFor, seen, drawn, recalCalls, recalRef, recalSeen,
                    recalOut, sampleSeen >>

\* Faulty variant: the sensor is left measuring
SensorAfterStopMissing(s) == s

\* scd41_stop(): periodic measurement ends, whatever the profile was
SensorAfterStop(s) == "idle"

\* The text shown for a return value of scd41_recalibrate
CalibrateText(rc) == IF rc = "SCD_SUCCESS" THEN "Success!" ELSE "Failed"

\* After the countdown: scd41_stop(), scd41_recalibrate(423), the result is shown
CalibrateFinish ==
    /\ pc = "calibrate_finish"
    /\ sensor' = SensorAfterStop(sensor)
    /\ stopCalls' = stopCalls + 1
    /\ recalCalls' = recalCalls + 1
    /\ recalRef' = CalibrateReference
    /\ recalSeen' = sensor'
    /\ recalOut' \in {"SCD_SUCCESS", "SCD_ERROR"}
    /\ calResult' = CalibrateText(recalOut')
    /\ pc' = "calibrate_result"
    /\ UNCHANGED << storeVars, menuVars, envVars, oledOn, iCO2, iSample, session,
                    startCalls, ticks, shown, alerts, alertLog, pulses, sampled, mood,
                    drawing, cue, litTicks, litFor, seen, drawn, exitBy, i, iTicks,
                    iUITick, iSampleTick, iTick, iLevel, iUpdate, sampleSeen >>

\* while (GetButtons() == 0) Delay_Ms(20); then return
CalibrateWaitExit ==
    /\ pc = "calibrate_result"
    /\ \E b \in Buttons :
         IF b = 0
            THEN UNCHANGED << pc, exitBy, modeVars >>
            ELSE ReturnToMenu("done")
    /\ UNCHANGED << storeVars, menuVars, envVars, devVars, session, startCalls,
                    stopCalls, ticks, shown, alerts, alertLog, pulses, sampled, mood,
                    drawing, cue, litTicks, litFor, seen, drawn, recalCalls, recalRef,
                    recalSeen, recalOut, sampleSeen >>

----------------------------------------------------------------------------
\* Continuous mode, in main() (main.c:739-790)

\* scd41_start(NORMAL), Standby82ms(59)
\* Faulty variant: the continuous branch samples without having started the sensor
SensorAfterStartMissing(s) == s

\* scd41_start(SCD_POWERMODE_NORMAL) starts periodic measurement
SensorAfterStart(s) == "normal"

ContinuousEnter ==
    /\ pc = "continuous"
    /\ sensor' = SensorAfterStart(sensor)
    /\ startCalls' = startCalls + 1
    /\ pc' = "continuous_sample"
    /\ UNCHANGED << storeVars, menuVars, modeVars, envVars, oledOn, iCO2, iSample,
                    session, stopCalls, ticks, shown, alerts, alertLog, pulses, sampled,
                    mood, drawing, cue, litTicks, litFor, seen, drawn, recalCalls,
                    recalRef, recalSeen, recalOut, sampleSeen, exitBy >>

\* Top of the while(1): scd41_getSample(), iSample++, the display-off test, and
\* ShowCurrent() is entered
ContinuousSample ==
    /\ pc = "continuous_sample"
    /\ iCO2' = air
    /\ sampleSeen' = sensor
    /\ iSample' = IF iSample < sampleCap THEN iSample + 1 ELSE iSample
    /\ oledOn' = IF iSample' = 16 /\ state.iMode # MODE_CONTINUOUS THEN FALSE ELSE oledOn
    /\ drawing' = TRUE
    /\ pc' = "continuous_show"
    /\ UNCHANGED << storeVars, menuVars, modeVars, envVars, sensor, session, startCalls,
                    stopCalls, ticks, shown, alerts, alertLog, pulses, sampled, mood,
                    cue, litTicks, litFor, seen, drawn, recalCalls, recalRef, recalSeen,
                    recalOut, exitBy >>

\* ShowCurrent() draws the reading and the emoji and returns; the for loop begins
ContinuousShow ==
    /\ pc = "continuous_show"
    /\ mood' = MoodIndex(iCO2)
    /\ drawn' = iCO2
    /\ drawing' = FALSE
    /\ i' = 0
    /\ pc' = "continuous_wait"
    /\ UNCHANGED << storeVars, menuVars, envVars, devVars, session, startCalls,
                    stopCalls, ticks, shown, alerts, alertLog, pulses, sampled, cue,
                    litTicks, litFor, seen, recalCalls, recalRef, recalSeen, recalOut,
                    sampleSeen, exitBy, iTicks, iUITick, iSampleTick, iTick, iLevel,
                    iUpdate, calResult >>

\* One iteration of for (i=0; i<61; i+=3): Standby82ms(3), poll
ContinuousWait ==
    /\ pc = "continuous_wait"
    /\ \E j \in Buttons :
         IF j = 3
            THEN /\ sensor' = "idle"
                 /\ stopCalls' = stopCalls + 1
                 /\ ReturnToMenu("gesture")
            ELSE /\ i' = i + 3
                 /\ pc' = IF i + 3 < 61 THEN "continuous_wait" ELSE "continuous_sample"
                 /\ UNCHANGED << sensor, stopCalls, exitBy, iTicks, iUITick,
                                 iSampleTick, iTick, iLevel, iUpdate, calResult >>
    /\ UNCHANGED << storeVars, menuVars, envVars, oledOn, iCO2, iSample, session,
                    startCalls, ticks, shown, alerts, alertLog, pulses, sampled, mood,
                    drawing, cue, litTicks, litFor, seen, drawn, recalCalls, recalRef,
                    recalSeen, recalOut, sampleSeen >>

----------------------------------------------------------------------------
\* The wake interrupt (main.c:191-208)

\* EXTI line 0 is raised and EXTI7_0_IRQHandler runs, at whatever point main() has
\* reached: oledFill(0) is called in the handler itself, then the pending bit is
\* cleared.  The handler sets no flag and main() never polls one.
EXTI7_0_IRQHandler ==
    /\ wakes > 0
    /\ wakes' = wakes - 1
    /\ irqFills' = irqFills + 1
    /\ irqMid' = IF drawing THEN irqMid + 1 ELSE irqMid
    /\ UNCHANGED << storeVars, menuVars, modeVars, obsVars, devVars, pc, air, held,
                    heldAt, sampleCap >>

----------------------------------------------------------------------------
\* The whole program

\* An erased FLASH page reads 0xFFFFFFFF in every word
Erased == MkState(-1, -1, -1, -1)

\* FLASH contents at power-on: erased, written by an earlier run, or with a period
\* out of range
FlashInit ==
    {Erased, MkState(MODE_TIMER, ALERT_BOTH, 60, 61)}
      \cup {MkState(m, ALERT_VIBRATION, 15, 5) : m \in 0..(MODE_COUNT - 1)}

\* CO2 concentration the device is run in
AirInit == {750}

\* Locals, peripherals and observations before anything has run
Fresh ==
    /\ oldstate = MkState(0, 0, 0, 0)
    /\ entryState = MkState(0, 0, 0, 0)
    /\ iSelItem = 0 /\ bDone = 0
    /\ sensor = "idle" /\ oledOn = FALSE /\ iCO2 = 0 /\ iSample = 0
    /\ i = 0 /\ iTicks = 0 /\ iUITick = 0 /\ iSampleTick = 0
    /\ iTick = 0 /\ iLevel = 0 /\ iUpdate = 0 /\ calResult = "none"
    /\ session = "none" /\ startCalls = 0 /\ stopCalls = 0 /\ saves = 0
    /\ loads = 0 /\ loaded = MkState(0, 0, 0, 0) /\ prevLoaded = MkState(0, 0, 0, 0)
    /\ writes = 0 /\ repairs = 0
    /\ ticks = 0 /\ shown = 0 /\ alerts = 0 /\ pulses = 0 /\ sampled = FALSE
    /\ mood = 0 /\ cue = "none" /\ recalCalls = 0 /\ recalRef = 0 /\ exitBy = "none"
    /\ drawing = FALSE /\ irqFills = 0 /\ irqMid = 0
    /\ recalSeen = "none" /\ recalOut = "none" /\ sampleSeen = "none"
    /\ litTicks = 0 /\ litFor = 0 /\ seen = FALSE /\ drawn = -1
    /\ alertLog = << >>

\* The state at reset, FLASH and environment aside: main() is about to run, the
\* global `state` is zero
Reset ==
    /\ Fresh
    /\ state = MkState(0, 0, 0, 0)
    /\ pc = "boot"

Init ==
    /\ Reset
    /\ flash \in FlashInit
    /\ flash0 = flash
    /\ air \in AirInit
    /\ held = FALSE /\ heldAt = "none"
    /\ budget = MaxEdits
    /\ sampleCap = MaxSample
    /\ wakes = 0

Next ==
    \/ ReadFlash
    \/ BootAlert
    \/ MenuEnter
    \/ MenuWaitRelease
    \/ MenuWaitPress
    \/ MenuRead
    \/ MenuExit
    \/ Dispatch
    \/ TimerEnter
    \/ TimerTick
    \/ TimerAlert
    \/ LowPowerEnter
    \/ LowPowerTick
    \/ StealthEnter
    \/ StealthWaitRelease
    \/ StealthWaitPress
    \/ StealthTick
    \/ CalibrateEnter
    \/ CalibrateWaitRelease
    \/ CalibrateWaitPress
    \/ CalibrateTick
    \/ CalibrateFinish
    \/ CalibrateWaitExit
    \/ ContinuousEnter
    \/ ContinuousSample
    \/ ContinuousShow
    \/ ContinuousWait

Spec == Init /\ [][Next]_vars

----------------------------------------------------------------------------
\* The configuration store across power cycles

\* Words a FLASH record may hold: any 32-bit pattern, read as int
RawModes == {-1, MODE_CONTINUOUS, MODE_CALIBRATE, 7}
RawAlerts == {-1, ALERT_VIBRATION, ALERT_BOTH, 9}
RawFreqs == {-1, 30, 7}
RawPeriods == {-2147483647, -1, 0, 4, 5, 6, 30, 59, 60, 61, 65536}

RawRecords ==
    {MkState(m, a, f, p) : m \in RawModes, a \in RawAlerts, f \in RawFreqs,
                           p \in RawPeriods}

\* Locals, peripherals and observations when main() has just branched to a
\* run-mode for the first time after power-on
AfterDispatch ==
    /\ pc = RunModeOf(state.iMode) /\ session = RunModeOf(state.iMode)
    /\ oldstate = state /\ entryState = state
    /\ iSelItem = 0 /\ bDone = 0
    /\ sensor = "idle" /\ oledOn = TRUE /\ iCO2 = 0 /\ iSample = 0
    /\ i = 0 /\ iTicks = 0 /\ iUITick = 0 /\ iSampleTick = 0
    /\ iTick = 0 /\ iLevel = 0 /\ iUpdate = 0 /\ calResult = "none"
    /\ startCalls = 0 /\ stopCalls = 0 /\ saves = 0
    /\ loads = 1 /\ loaded = flash /\ prevLoaded = MkState(0, 0, 0, 0)
    /\ flash0 = flash /\ writes = 0 /\ repairs = 0
    /\ ticks = 0 /\ shown = 0 /\ alerts = 0 /\ pulses = 0 /\ sampled = FALSE
    /\ mood = 0 /\ cue = "none" /\ recalCalls = 0 /\ recalRef = 0 /\ exitBy = "running"
    /\ drawing = FALSE /\ irqFills = 0 /\ irqMid = 0
    /\ recalSeen = "none" /\ recalOut = "none" /\ sampleSeen = "none"
    /\ litTicks = 0 /\ litFor = 0 /\ seen = FALSE /\ drawn = -1
    /\ alertLog = << >>

InitLoad ==
    /\ Reset
    /\ flash \in RawRecords
    /\ flash0 = flash
    /\ air = 0
    /\ held = FALSE /\ heldAt = "none"
    /\ budget = 0
    /\ sampleCap = 0
    /\ wakes = 0

\* Power is cycled after ReadFlash returned: RAM is cleared, FLASH is kept
Reboot ==
    /\ pc = "loaded"
    /\ loads < MaxLoads
    /\ state' = MkState(0, 0, 0, 0)
    /\ pc' = "boot"
    /\ UNCHANGED << flash, loads, loaded, prevLoaded, flash0, writes, repairs, menuVars,
                    modeVars, obsVars, devVars, envVars >>

NextLoad ==
    \/ ReadFlash
    \/ Reboot

SpecLoad == InitLoad /\ [][NextLoad]_vars

\* C3: when ReadFlash returns, a record whose period was outside 5..60 has been
\* replaced, in RAM and in FLASH, by {Continuous, Vibration, 30, 5} with one write;
\* a record whose period was inside 5..60 is returned as it was, with no write; and
\* a second ReadFlash writes nothing and returns what the first returned.
C3_LoadRepairs ==
    pc = "loaded" =>
        /\ (flash0.iPeriod < 5 \/ flash0.iPeriod > 60) =>
               /\ state = [iMode |-> 0, iAlert |-> 0, iFreq |-> 30, iPeriod |-> 5]
               /\ flash = state
               /\ writes = 1
        /\ (flash0.iPeriod >= 5 /\ flash0.iPeriod <= 60) =>
               /\ state = flash0
               /\ flash = flash0
               /\ writes = 0
        /\ loads >= 2 => (writes = 0 /\ state = prevLoaded)

\* C3 witness: a second ReadFlash has returned after the first one repaired the record
C3_Witness ==
    /\ pc = "loaded"
    /\ loads = 2
    /\ repairs = 1
    /\ writes = 0
    /\ state = DefaultState

\* C14 (as stated): when ReadFlash has returned, whatever the FLASH page held,
\* the mode is one of the five modes, the alert style one of the three styles, the
\* update time one of 15, 30, 45, 60 and the period within 5..60.
C14_FieldsInDomain ==
    pc = "loaded" =>
        /\ state.iMode \in 0..4
        /\ state.iAlert \in 0..2
        /\ state.iFreq \in {15, 30, 45, 60}
        /\ state.iPeriod \in 5..60

----------------------------------------------------------------------------
\* RunMenu on its own: one visit of the menu, from its entry to its return

\* Settings RunMenu is entered with: every value of every field occurs
MenuInitStates ==
    {MkState(k % MODE_COUNT, k % ALERT_COUNT, 15 * (1 + (k % 4)),
        5 * (1 + (k % 12))) : k \in 0..11}

InitMenu ==
    /\ Fresh
    /\ pc = "menu_top"
    /\ state \in MenuInitStates
    /\ flash \in {state, DefaultState}
    /\ flash0 = flash
    /\ air = 0
    /\ held = FALSE /\ heldAt = "none"
    /\ budget = MaxMenuEdits
    /\ sampleCap = 0
    /\ wakes = 0


NextMenu ==
    \/ MenuEnter
    \/ MenuWaitRelease
    \/ MenuWaitPress
    \/ MenuRead
    \/ MenuExit

SpecMenu == InitMenu /\ [][NextMenu]_vars

\* C2: when RunMenu has returned, it has called WriteFlash exactly once if the
\* settings differ from those it was entered with and the mode is not Calibrate,
\* and not at all otherwise; FLASH then holds the settings, or is untouched.
C2_SaveIffChanged ==
    pc = "dispatch" =>
        IF state # entryState /\ state.iMode # 3
           THEN saves = 1 /\ flash = state
           ELSE saves = 0 /\ flash = flash0

\* C2 witness: RunMenu returned after the alert style was cycled all the way
\* round, in a mode other than Calibrate, and nothing was written
C2_Witness ==
    /\ pc = "dispatch"
    /\ budget = MaxMenuEdits - 3
    /\ state = entryState
    /\ state.iMode # 3
    /\ flash # state
    /\ saves = 0

\* The successor of each value in the cycle of its field
NextFreq(f) == CASE f = 15 -> 30 [] f = 30 -> 45 [] f = 45 -> 60 [] f = 60 -> 15
NextAlert(a) == CASE a = 0 -> 1 [] a = 1 -> 2 [] a = 2 -> 0
NextPeriod(p) == IF p = 60 THEN 5 ELSE p + 5

\* n activations of a menu item
RECURSIVE Times(_, _, _)
Times(n, item, s) == IF n = 0 THEN s ELSE Times(n - 1, item, Activate(item, s))

\* C8: an activation of a field item leaves the cursor and the other three fields
\* alone and moves the field to the next value of its cycle (mode 0..4 and back to
\* 0; 15->30->45->60->15; Vibration->LED->Both->Vibration; 5->10->...->60->5); and
\* from every state of the menu 5 activations of Mode, 4 of Update, 3 of Alert and
\* 12 of Timer lead back to the same settings.
C8_Cycling ==
    [][ /\ (pc = "menu_read" /\ budget' # budget) =>
              /\ iSelItem' = iSelItem
              /\ iSelItem = 1 =>
                     state' = [state EXCEPT !.iMode = (state.iMode + 1) % 5]
              /\ iSelItem = 2 =>
                     state' = [state EXCEPT !.iFreq = NextFreq(state.iFreq)]
              /\ iSelItem = 3 =>
                     state' = [state EXCEPT !.iAlert = NextAlert(state.iAlert)]
              /\ iSelItem = 4 =>
                     state' = [state EXCEPT !.iPeriod = NextPeriod(state.iPeriod)]
        /\ pc = "menu_read" =>
              /\ Times(5, 1, state) = state
              /\ Times(4, 2, state) = state
              /\ Times(3, 3, state) = state
              /\ Times(12, 4, state) = state
      ]_vars

\* C8 witness: the Timer item was activated once at 60 minutes and shows 5
C8_Witness ==
    /\ pc = "menu_release"
    /\ iSelItem = 4
    /\ budget = MaxMenuEdits - 1
    /\ entryState.iPeriod = 60
    /\ state = [entryState EXCEPT !.iPeriod = 5]

----------------------------------------------------------------------------
\* Claims about the whole program

\* The state of the mode controller at a position of main()
CtlState ==
    CASE pc \in {"RunTimer", "timer", "timer_alert"} -> "Timer"
      [] pc \in {"RunLowPower", "lowpower"} -> "LowPower"
      [] pc \in {"RunStealth", "stealth_release", "stealth_press", "stealth"} -> "Stealth"
      [] pc \in {"RunCalibrate", "calibrate_release", "calibrate_press", "calibrate",
                 "calibrate_finish", "calibrate_result"} -> "Calibrate"
      [] pc \in {"continuous", "continuous_sample", "continuous_show",
                 "continuous_wait"} -> "Continuous"
      [] OTHER -> "Menu"

\* A session has just returned to menu_top
Returned == pc = "menu_top" /\ session # "none"

\* C1 (as stated): whenever a session has returned to the menu, it has called
\* scd41_start exactly once and scd41_stop exactly once.
C1_Original == Returned => (startCalls = 1 /\ stopCalls = 1)

\* C1 (amended): a session never calls scd41_start twice nor scd41_stop before or
\* more often than scd41_start; when it has returned to the menu the sensor is
\* stopped and both calls were made exactly once, except that a Timer session and a
\* Calibrate session quit at its prompt made neither call.
C1_StartStopPaired ==
    /\ startCalls <= 1
    /\ stopCalls <= startCalls
    /\ Returned =>
          /\ sensor = "idle"
          /\ stopCalls = startCalls
          /\ startCalls =
                IF session = "RunTimer" \/ (session = "RunCalibrate" /\ exitBy = "prompt")
                   THEN 0 ELSE 1

\* C1 witness: a Stealth session was left by the exit gesture after pulses were played
C1_Witness ==
    /\ Returned
    /\ session = "RunStealth"
    /\ exitBy = "gesture"
    /\ pulses > 0
    /\ startCalls = 1
    /\ stopCalls = 1

\* C4 (as stated): before the first session, when main() reaches RunMenu the
\* settings are those ReadFlash returned; and in a run-mode the settings are those
\* the session was dispatched with.
C4_ConfigOnlyInMenu ==
    /\ (pc = "menu_top" /\ session = "none") => state = loaded
    /\ CtlState # "Menu" => state = entryState

\* C5: a Timer session shows state.iPeriod*60, then one less every tick; having
\* shown 0 at tick number iPeriod*60+1 it plays the alert once and returns; if it
\* sees both buttons at a tick it returns at that tick without playing the alert.
C5_TimerCountdown ==
    /\ pc = "timer" =>
          /\ alerts = 0
          /\ i = state.iPeriod * 60 - ticks
          /\ ticks > 0 => shown = i + 1
    /\ pc = "timer_alert" =>
          /\ alerts = 0
          /\ ticks = state.iPeriod * 60 + 1
          /\ shown = 0
    /\ (Returned /\ session = "RunTimer") =>
          \/ /\ exitBy = "done"
             /\ alerts = 1
             /\ ticks = state.iPeriod * 60 + 1
             /\ shown = 0
          \/ /\ exitBy = "gesture"
             /\ alerts = 0
             /\ ticks >= 1
             /\ shown = state.iPeriod * 60 - (ticks - 1)

\* C5 witness: a five-minute countdown ran out after 301 ticks and the alert played
C5_Witness ==
    /\ Returned
    /\ session = "RunTimer"
    /\ exitBy = "done"
    /\ state.iPeriod = 5
    /\ ticks = 301
    /\ alerts = 1

\* C16 (as stated): in a Timer session, from the tick that shows 10 until the
\* countdown has shown 0 and ShowAlert is about to be called, the display is
\* powered on.
C16_TimerFinalDisplay ==
    /\ (pc = "timer" /\ ticks > 0 /\ shown <= 10) => oledOn
    /\ pc = "timer_alert" => oledOn

\* The run-mode a mode value names
NamedMode(m) ==
    CASE m = 0 -> "Continuous"
      [] m = 1 -> "LowPower"
      [] m = 2 -> "Stealth"
      [] m = 3 -> "Calibrate"
      [] m = 4 -> "Timer"

\* C7: before any session the controller is in Menu; a run-mode is entered only
\* from Menu, by Start, and is the one state.iMode names; a run-mode is left only
\* to Menu; and in every reachable state some step that changes the state is possible.
C7_Controller ==
    /\ [](session = "none" => CtlState = "Menu")
    /\ [](ENABLED <<Next>>_vars)
    /\ [][ CtlState' # CtlState =>
              \/ /\ CtlState = "Menu"
                 /\ pc = "dispatch"
                 /\ bDone = 1
                 /\ CtlState' = NamedMode(state.iMode)
              \/ /\ CtlState # "Menu"
                 /\ CtlState' = "Menu"
       ]_vars

\* C7 witness: the menu is shown again after a Calibrate session ran to its end
C7_Witness ==
    /\ pc = "menu_release"
    /\ session = "RunCalibrate"
    /\ exitBy = "done"
    /\ CtlState = "Menu"

\* C12 (as stated): a Calibrate session that was started counts down from 180, one
\* second per tick, and having shown 0 calls scd41_recalibrate once with a
\* reference of 420 ppm.
C12_CalibrateRun ==
    /\ (pc = "calibrate" /\ ticks = 0) => i = 180
    /\ pc = "calibrate_result" =>
          /\ shown = 0
          /\ ticks = 180 + 1
          /\ recalCalls = 1
          /\ recalRef = 420

\* C15: in a Calibrate session scd41_recalibrate is not called before the
\* countdown has run out and is called exactly once, with the sensor stopped, when
\* it has; what is shown is Success for a successful call and Failed otherwise;
\* from the result screen, failed or not, the session makes no further sensor call
\* and can only wait or return to the menu; a session left by the exit gesture or
\* at the prompt has not called it.
C15_Recalibration ==
    /\ []((CtlState = "Calibrate" /\ pc # "calibrate_result") => recalCalls = 0)
    /\ [](pc = "calibrate_result" =>
             /\ recalCalls = 1
             /\ recalSeen = "idle"
             /\ stopCalls = 1
             /\ recalOut \in {"SCD_SUCCESS", "SCD_ERROR"}
             /\ calResult = (IF recalOut = "SCD_SUCCESS" THEN "Success!" ELSE "Failed"))
    /\ []((Returned /\ session = "RunCalibrate") =>
             recalCalls = (IF exitBy = "done" THEN 1 ELSE 0))
    /\ [][ pc = "calibrate_result" =>
              /\ pc' \in {"calibrate_result", "menu_top"}
              /\ recalCalls' = recalCalls
              /\ startCalls' = startCalls
              /\ stopCalls' = stopCalls
              /\ sensor' = sensor
       ]_vars

\* C15 witness: the menu is reached again after a recalibration that failed, and
\* was called once
C15_Witness ==
    /\ Returned
    /\ session = "RunCalibrate"
    /\ exitBy = "done"
    /\ recalOut = "SCD_ERROR"
    /\ recalCalls = 1
    /\ recalSeen = "idle"

\* C20 (as stated): while a run-mode other than Calibrate is active, the FLASH
\* record equals the settings in RAM, field by field.
C20_StoredIsCurrent ==
    CtlState \in {"Continuous", "LowPower", "Stealth", "Timer"} =>
        /\ flash.iMode = state.iMode
        /\ flash.iAlert = state.iAlert
        /\ flash.iFreq = state.iFreq
        /\ flash.iPeriod = state.iPeriod

----------------------------------------------------------------------------
\* The whole program with the user holding both buttons down from some moment on

\* Both buttons are pressed and are not released any more
Hold ==
    /\ ~held
    /\ held' = TRUE
    /\ heldAt' = pc
    /\ UNCHANGED << storeVars, menuVars, modeVars, obsVars, devVars, pc, air, sampleCap,
                    wakes, irqFills, irqMid >>

InitLive ==
    /\ Reset
    /\ flash \in {MkState(m, ALERT_VIBRATION, 15, 5) : m \in 0..(MODE_COUNT - 1)}
    /\ flash0 = flash
    /\ air = 750
    /\ held = FALSE /\ heldAt = "none"
    /\ budget = 0
    /\ sampleCap = 0
    /\ wakes = 0

NextLive ==
    \/ Next
    \/ Hold

\* main() never halts: whenever the program can make progress it does
LiveSpec == InitLive /\ [][NextLive]_vars /\ WF_vars(Next)

\* C6 (as stated): once both buttons are held for good in a run-mode, the
\* controller gets back to Menu.
C6_Original == (held /\ CtlState # "Menu") ~> (CtlState = "Menu")

\* A Stealth or Calibrate session that has not got past the wait for all buttons
\* to be released at its start prompt
AwaitingRelease ==
    pc \in {"RunStealth", "stealth_release", "RunCalibrate", "calibrate_release"}

\* C6 (amended): once both buttons are held for good in a run-mode that is not
\* still waiting, at the start prompt of Stealth or Calibrate, for the buttons to
\* be released, the controller gets back to Menu.
C6_ExitGesture == (held /\ CtlState # "Menu" /\ ~AwaitingRelease) ~> (CtlState = "Menu")

\* C6 witness: the buttons were pressed for good at the result screen of a
\* Calibrate session, which has returned to the menu
C6_Witness ==
    /\ held
    /\ heldAt = "calibrate_result"
    /\ Returned
    /\ session = "RunCalibrate"
    /\ exitBy = "done"

----------------------------------------------------------------------------
\* RunStealth on its own, over a range of concentrations

\* Concentrations around every multiple of 500 ppm, and the largest 16-bit reading
AirWide ==
    {k * 500 + d : k \in 0..7, d \in {0, 1, 250, 499}} \cup {65535}

InitStealth ==
    /\ state \in {MkState(MODE_STEALTH, ALERT_LED, f, 5) : f \in {15, 30, 45, 60}}
    /\ flash = state
    /\ AfterDispatch
    /\ air \in AirWide
    /\ held = FALSE /\ heldAt = "none"
    /\ budget = 0
    /\ sampleCap = 0
    /\ wakes = 0

NextStealth ==
    \/ StealthEnter
    \/ StealthWaitRelease
    \/ StealthWaitPress
    \/ StealthTick

SpecStealth == InitStealth /\ [][NextStealth]_vars

\* The pulse count for a concentration of at least 0 ppm
PulsesFor(co2) ==
    IF co2 < 500 THEN 1
    ELSE IF co2 >= 2500 THEN 6
    ELSE 1 + co2 \div 500

\* C9: whenever an iteration of RunStealth has played pulses, their number is
\* 1 + co2/500 (integer division) limited to 1..6 for the latest sample co2; and
\* every iteration at an update point plays at least one pulse.
C9_StealthPulses ==
    pc = "stealth" =>
        /\ pulses \in 0..6
        /\ pulses # 0 => pulses = PulsesFor(iCO2)
        /\ iLevel = (IF iTick < 20 THEN 1 ELSE PulsesFor(iCO2))

\* C9 witness: an update at 750 ppm has played exactly two pulses
C9_Witness ==
    /\ pc = "stealth"
    /\ iCO2 = 750
    /\ pulses = 2

----------------------------------------------------------------------------
\* Continuous mode on its own, over every concentration up to MaxPpm

MaxPpm == 3100

InitContinuous ==
    /\ state = MkState(MODE_CONTINUOUS, ALERT_LED, 30, 5)
    /\ flash = state
    /\ AfterDispatch
    /\ air \in 0..MaxPpm
    /\ held = FALSE /\ heldAt = "none"
    /\ budget = 0
    /\ sampleCap = 0
    /\ wakes = 0

NextContinuous ==
    \/ ContinuousEnter
    \/ ContinuousSample
    \/ ContinuousShow
    \/ ContinuousWait

SpecContinuous == InitContinuous /\ [][NextContinuous]_vars

\* C10: the emoji index shown with a sample lies in 0..4 and is 0 below 1000 ppm,
\* 1 for 1000..1499, 2 for 1500..1999, 3 for 2000..2499 and 4 from 2500 ppm on.
C10_MoodBuckets ==
    pc = "continuous_wait" =>
        /\ mood \in 0..4
        /\ mood = (IF iCO2 < 1000 THEN 0
                   ELSE IF iCO2 < 1500 THEN 1
                   ELSE IF iCO2 < 2000 THEN 2
                   ELSE IF iCO2 < 2500 THEN 3
                   ELSE 4)

\* C10 witness: a sample of 3000 ppm is shown with emoji 4
C10_Witness ==
    /\ pc = "continuous_wait"
    /\ iCO2 = 3000
    /\ mood = 4

----------------------------------------------------------------------------
\* RunLowPower on its own, over concentrations around the limits of the LED cue

\* Concentrations at and next to 1000 and 2000 ppm, and the ends of the range
AirLow == {0, 999, 1000, 1001, 1999, 2000, 2001, 65535}

InitLowPower ==
    /\ state = MkState(MODE_LOW_POWER, ALERT_LED, 30, 5)
    /\ flash = state
    /\ AfterDispatch
    /\ air \in AirLow
    /\ held = FALSE /\ heldAt = "none"
    /\ budget = 0
    /\ sampleCap = 0
    /\ wakes = 0

NextLowPower ==
    \/ LowPowerEnter
    \/ LowPowerTick

SpecLowPower == InitLowPower /\ [][NextLowPower]_vars

\* C11 (as stated): the LEDs blinked after a sample of RunLowPower are green alone
\* below 1000 ppm, green then red from 1000 ppm up to 1999 ppm, and red alone from
\* 2000 ppm on.
C11_LedCue ==
    (pc = "lowpower" /\ cue # "none") =>
        cue = (IF iCO2 < 1000 THEN "green"
               ELSE IF iCO2 < 2000 THEN "green+red"
               ELSE "red")

\* C17: in RunLowPower the display is on exactly while its timer runs; a press of
\* one button seen with the timer run out powers the display on and draws the
\* latest sample; a press seen while the timer runs changes nothing, the timer
\* goes on counting down; and every time the display is powered off, at entry as
\* after a press, it has been on for exactly 20 suspend ticks.
C17_DisplayTimer ==
    /\ [](pc = "lowpower" =>
             /\ oledOn <=> iUITick > 0
             /\ oledOn => litTicks + iUITick = 20
             /\ ~oledOn => litFor = 20
             /\ litFor \in {0, 20})
    /\ [][ (pc = "lowpower" /\ pc' = "lowpower") =>
              /\ (iUITick = 0 /\ seen') =>
                     (oledOn' /\ drawn' = iCO2 /\ litTicks' = 1)
              /\ (iUITick = 0 /\ seen' = FALSE) => (~oledOn' /\ drawn' = drawn)
              /\ iUITick > 0 => (iUITick' = iUITick - 1 /\ drawn' = drawn)
       ]_vars

\* C17 witness: a press showed a sample of 2001 ppm and the display has been
\* powered off again, 20 ticks later
C17_Witness ==
    /\ pc = "lowpower"
    /\ ~oledOn
    /\ drawn = 2001
    /\ litFor = 20
    /\ litTicks = 20

----------------------------------------------------------------------------
\* Continuous mode with the wake interrupt arriving at any moment

MaxWakes == 2        \* wake interrupts that arrive in a run

InitWake ==
    /\ state = MkState(MODE_CONTINUOUS, ALERT_LED, 30, 5)
    /\ flash = state
    /\ AfterDispatch
    /\ air \in AirInit
    /\ held = FALSE /\ heldAt = "none"
    /\ budget = 0
    /\ sampleCap = 0
    /\ wakes = MaxWakes

NextWake ==
    \/ NextContinuous
    \/ EXTI7_0_IRQHandler

SpecWake == InitWake /\ [][NextWake]_vars

\* C13 (as stated): the wake interrupt handler makes no display call of its own,
\* so that no display call is made in interrupt context while main() is in the
\* middle of a display update.
C13_WakeDeferred ==
    /\ irqFills = 0
    /\ irqMid = 0

----------------------------------------------------------------------------
\* From power-on into continuous mode, with the samples counted past 16

MaxCycles == 17      \* iSample is counted up to this value

\* A record that selects continuous mode, and a record with a period in range whose
\* mode word is none of the five modes
CycleRecords ==
    {MkState(MODE_CONTINUOUS, ALERT_VIBRATION, 30, 5),
     MkState(7, ALERT_VIBRATION, 30, 30)}

InitCycle ==
    /\ Reset
    /\ flash \in CycleRecords
    /\ flash0 = flash
    /\ air = 750
    /\ held = FALSE /\ heldAt = "none"
    /\ budget = 0
    /\ sampleCap = MaxCycles
    /\ wakes = 0

NextCycle ==
    \/ ReadFlash
    \/ BootAlert
    \/ MenuEnter
    \/ MenuWaitRelease
    \/ MenuWaitPress
    \/ MenuRead
    \/ MenuExit
    \/ Dispatch
    \/ ContinuousEnter
    \/ ContinuousSample
    \/ ContinuousShow
    \/ ContinuousWait

SpecCycle == InitCycle /\ [][NextCycle]_vars

\* C18 (as stated): while main() is in its continuous loop the display is powered
\* on, however many samples were taken; a sample is followed at once by one
\* ShowCurrent of that sample, then come 21 suspend ticks, each followed by a poll
\* at which the exit gesture ends the session, and only then the next sample.
C18_ContinuousCycle ==
    /\ [](CtlState = "Continuous" => oledOn)
    /\ [][ /\ pc = "continuous_sample" => (pc' = "continuous_show" /\ iCO2' = air)
           /\ pc = "continuous_show" =>
                  (pc' = "continuous_wait" /\ drawn' = iCO2 /\ iCO2' = iCO2 /\ i' = 0)
           /\ pc = "continuous_wait" =>
                  /\ iCO2' = iCO2 /\ drawn' = drawn
                  /\ \/ pc' = "menu_top" /\ exitBy' = "gesture"
                     \/ pc' = "continuous_wait" /\ i' = i + 3
                     \/ pc' = "continuous_sample" /\ i' = 3 * 21
       ]_vars

----------------------------------------------------------------------------
\* RunTimer on its own, with each of the three alert styles

InitTimerAlert ==
    /\ state \in {MkState(MODE_TIMER, a, 30, 5) : a \in 0..(ALERT_COUNT - 1)}
    /\ flash = state
    /\ AfterDispatch
    /\ air = 0
    /\ held = FALSE /\ heldAt = "none"
    /\ budget = 0
    /\ sampleCap = 0
    /\ wakes = 0

NextTimerAlert ==
    \/ TimerEnter
    \/ TimerTick
    \/ TimerAlert

SpecAlert == InitTimerAlert /\ [][NextTimerAlert]_vars

\* An event of an alert: what is driven, and for how many milliseconds
Ev(d, m) == [dev |-> d, ms |-> m]

\* C19: ShowAlert produces, for Vibration, three times (motor 150 ms, nothing for
\* 820 ms) and no LED; for LED, four times (green 300 ms, red 300 ms) and no
\* motor; for Both, three times (motor 150 ms, green 400 ms, red 400 ms); as long
\* as it was not called nothing is produced; once called the whole sequence was
\* produced; and the call leaves the settings and the FLASH record as they were.
C19_AlertSequences ==
    /\ [](alerts = 0 => alertLog = << >>)
    /\ []((alerts > 0 /\ state.iAlert = 0) =>
             alertLog = << Ev("motor", 150), Ev("none", 820),
                           Ev("motor", 150), Ev("none", 820),
                           Ev("motor", 150), Ev("none", 820) >>)
    /\ []((alerts > 0 /\ state.iAlert = 1) =>
             alertLog = << Ev("green", 300), Ev("red", 300),
                           Ev("green", 300), Ev("red", 300),
                           Ev("green", 300), Ev("red", 300),
                           Ev("green", 300), Ev("red", 300) >>)
    /\ []((alerts > 0 /\ state.iAlert = 2) =>
             alertLog = << Ev("motor", 150), Ev("green", 400), Ev("red", 400),
                           Ev("motor", 150), Ev("green", 400), Ev("red", 400),
                           Ev("motor", 150), Ev("green", 400), Ev("red", 400) >>)
    /\ [][alerts' # alerts => (alerts' = 1 /\ state' = state /\ flash' = flash)]_vars

\* C19 witness: a countdown ran out with the style Both and nine events were produced
C19_Witness ==
    /\ Returned
    /\ session = "RunTimer"
    /\ exitBy = "done"
    /\ state.iAlert = 2
    /\ alerts = 1
    /\ Len(alertLog) = 9

----------------------------------------------------------------------------
\* The sampling and update points of RunStealth

\* The counter values at which RunStealth reads the sensor
SamplePoint(t) ==
    t % 20 = 19

\* The counter values at which RunStealth plays pulses, for an update every f seconds
UpdatePoint(t, f) ==
    t % (4 * f) = 4 * f - 1

\* C21: in Stealth mode with an update frequency of 15, 30, 45 or 60 seconds, every
\* iteration of the loop moves the tick counter forward without passing over a value
\* that is 19 modulo 20 or 4*f - 1 modulo 4*f; the sensor is read in exactly the
\* iterations whose counter value is 19 modulo 20; pulses are played in exactly the
\* iterations whose counter value is 4*f - 1 modulo 4*f; and an iteration that plays
\* pulses has read the sensor first.
C21_NoPointSkipped ==
    [][(pc = "stealth" /\ pc' = "stealth" /\ state.iFreq \in {15, 30, 45, 60}) =>
          /\ iTick' > iTick
          /\ \A v \in (iTick + 1)..(iTick' - 1) :
                ~SamplePoint(v) /\ ~UpdatePoint(v, state.iFreq)
          /\ sampled' = SamplePoint(iTick)
          /\ (pulses' > 0) = UpdatePoint(iTick, state.iFreq)
          /\ (pulses' > 0 => sampled' /\ iCO2' = air)]_vars

\* C21 witness: with an update every 15 seconds, the second update point was reached
\* after a burst of six pulses had moved the counter on by twelve, and six pulses
\* were played there from a sample read in the same iteration
C21_Witness ==
    /\ pc = "stealth"
    /\ state.iFreq = 15
    /\ iTick = 2 * iUpdate + 12
    /\ pulses = 6
    /\ sampled

----------------------------------------------------------------------------
\* The sensor across the menu and the run-modes

\* C22: in every state in which the controller is in the menu the sensor is not
\* measuring, and scd41_getSample has only ever been called with the sensor
\* measuring: in low power mode in RunLowPower, in normal mode in RunStealth and in
\* the continuous loop, and never in RunTimer or RunCalibrate.
C22_SensorDiscipline ==
    /\ CtlState = "Menu" => sensor = "idle"
    /\ sampleSeen # "idle"
    /\ sampleSeen # "none" =>
          /\ session \in {"RunLowPower", "RunStealth", "continuous"}
          /\ sampleSeen = (IF session = "RunLowPower" THEN "low" ELSE "normal")

\* C22 witness: a RunLowPower session that read a sample with the sensor in low power
\* mode has returned to the menu, and the sensor is stopped
C22_Witness ==
    /\ Returned
    /\ session = "RunLowPower"
    /\ sampleSeen = "low"
    /\ sensor = "idle"

====
